---------------------------- MODULE Spec2Model ----------------------------
(***************************************************************************)
(* Model of operator_csv_libs/imagerepo.py: the ImageRepo facade, the      *)
(* three registry adapters (ArtifactoryRepo, QuayRepo, DockerRepo) and     *)
(* the credential resolution done by their constructors.                   *)
(*                                                                         *)
(* Python values are modelled as follows.  A str is a TLA+ string and the  *)
(* str methods used by the code (in, startswith, split, replace) are       *)
(* computed character by character.  None is the reserved string None.     *)
(* os.environ is a function whose DOMAIN is the set of variables that are  *)
(* set.  The backends (Artifactory, the quay.io REST API, the skopeo       *)
(* command) are outside the program: every call draws their answer from a  *)
(* small set of answers.                                                   *)
(***************************************************************************)
EXTENDS Integers, Sequences, FiniteSets, TLC

VARIABLES
    environ,    \* os.environ: a function from the set variables to their values
    shared,     \* the class attributes ArtifactoryRepo._artifactory_{user,key,base}
    obj,        \* the object built by the last constructor call
    call,       \* the last call: its operation, arguments and outcome
    reqs        \* the backend requests issued by the last call, in order

vars == <<environ, shared, obj, call, reqs>>

-----------------------------------------------------------------------------
(* Bounds *)

\* a repository host is made of at most MaxFrags fragments
MaxFrags == 2
\* the 'tags' list of a quay.io answer has at most MaxTags entries
MaxTags == 2

-----------------------------------------------------------------------------
(* Python str operations *)

None == "<None>"

\* bool(v) for v a str or None
Truthy(v) == v # None /\ v # ""

\* s.startswith(p)
StartsWith(s, p) == Len(s) >= Len(p) /\ SubSeq(s, 1, Len(p)) = p

\* p in s
Contains(s, p) ==
    \E i \in 1..(Len(s) - Len(p) + 1) : SubSeq(s, i, i + Len(p) - 1) = p

\* s.find(p, i - 1) + 1: the position of the first occurrence of p in s at or
\* after position i, 0 if none
RECURSIVE FindFrom(_, _, _)
FindFrom(s, p, i) ==
    IF i + Len(p) - 1 > Len(s) THEN 0
    ELSE IF SubSeq(s, i, i + Len(p) - 1) = p THEN i
    ELSE FindFrom(s, p, i + 1)

Find(s, p) == FindFrom(s, p, 1)

\* s.split(p)[0]
SplitHead(s, p) ==
    LET i == Find(s, p) IN IF i = 0 THEN s ELSE SubSeq(s, 1, i - 1)

\* p.join(s.split(p)[1:])
SplitTail(s, p) ==
    LET i == Find(s, p) IN IF i = 0 THEN "" ELSE SubSeq(s, i + Len(p), Len(s))

\* s.replace(p, "") for a non-empty p
RECURSIVE Remove(_, _)
Remove(s, p) ==
    LET i == Find(s, p) IN
    IF i = 0 THEN s
    ELSE SubSeq(s, 1, i - 1) \o Remove(SubSeq(s, i + Len(p), Len(s)), p)


-----------------------------------------------------------------------------
(* Inputs *)

Frags == {"", "quay.io/", "docker.io", "artifactory", "registry.", "quay.io", "/lib"}

\* the strings made of at most n fragments
RECURSIVE HostsOf(_)
HostsOf(n) == IF n = 0 THEN {""} ELSE {h \o f : h \in HostsOf(n - 1), f \in Frags}

\* the values image.get_image_repo() takes
Hosts == HostsOf(MaxFrags)

\* an Image, seen through its accessors get_image_repo(), get_image_name(),
\* get_tag() and get_image()
ImageOf(repo) ==
    [repo |-> repo, name |-> "nginx", tag |-> "1.0", image |-> repo \o "/nginx:1.0"]

Images == {ImageOf(h) : h \in Hosts}

NoImage == ImageOf("")

\* the images the adapters are built on directly
ArtifactoryImage == ImageOf("registry.artifactory.com/lib")

QuayImage == ImageOf("quay.io/lib")

DockerImage == ImageOf("docker.io/lib")

CredNames == {"user", "key", "base"}

NoCreds == [c \in CredNames |-> None]

\* the values a caller passes for artifactory_user, artifactory_key,
\* artifactory_base (docker_user, docker_key): None when left out
ExplicitValues == {None, "", "x1"}

\* the arguments of ArtifactoryRepo(...): each one given or left out, or all
\* three given as the empty string
ExplicitArgs == [CredNames -> {None, "x1"}] \cup {[c \in CredNames |-> ""]}

EnvValues == {"", "e1"}

SharedValues == {None, "c1"}

ArtifactoryEnvKey ==
    [user |-> "ARTIFACTORY_USER", key |-> "ARTIFACTORY_KEY", base |-> "ARTIFACTORY_BASE"]

DockerEnvKey == [user |-> "DOCKER_USER", key |-> "DOCKER_KEY"]

ArtifactoryEnvKeys == {ArtifactoryEnvKey[c] : c \in CredNames}

DockerEnvKeys == {DockerEnvKey[c] : c \in {"user", "key"}}

EnvKeys == ArtifactoryEnvKeys \cup DockerEnvKeys

\* environments in which every variable that is set has the value v
EnvironsOf(v) == UNION {[K -> {v}] : K \in SUBSET EnvKeys}

-----------------------------------------------------------------------------
(* Objects and calls *)

NoObj ==
    [kind |-> "none", image |-> NoImage, image_repo |-> None,
     cred |-> NoCreds, inst |-> NoCreds]

\* the adapter a call is forwarded to
Adapter(o) == IF o.kind = "ImageRepo" THEN o.image_repo ELSE o.kind

\* a parsed JSON document, seen through the two keys the code reads; None
\* for a key the document does not have
NoDoc == [mediaType |-> None, Digest |-> None]

\* what a subprocess wrote to stdout: json tells whether json.loads accepts
\* it, doc is what json.loads returns then
NoOut == [json |-> FALSE, doc |-> NoDoc]

\* what the backend answered during a call: the HTTP response (status_code,
\* tags), the outputs of the skopeo commands (raw, inspect, shasum), and what
\* ArtifactoryPath did (stat or open: err and sha256, then read and content)
NoAnswer ==
    [status_code |-> 0, tags |-> <<>>, raw |-> NoOut, inspect |-> NoOut,
     shasum |-> None, err |-> None, sha256 |-> None, read |-> None, content |-> None]

\* a call: ret is the str it returned and doc the document it returned; a
\* call that ended normally with neither returned None
NoCall ==
    [op |-> "none", image |-> NoImage, explicit |-> NoCreds, manifest_list |-> FALSE,
     answer |-> NoAnswer, raised |-> None, msg |-> "", ret |-> None, doc |-> NoDoc,
     cred |-> NoCreds, src |-> NoCreds]

-----------------------------------------------------------------------------
(* ImageRepo.__init__: the choice of the adapter *)

\* a facade that tests the two prefixes before the substring
Classify_PrefixFirst(repo) ==
    IF StartsWith(repo, "quay.io/") THEN "QuayRepo"
    ELSE IF StartsWith(repo, "docker.io") THEN "DockerRepo"
    ELSE IF Contains(repo, "artifactory") THEN "ArtifactoryRepo"
    ELSE None

\* the class ImageRepo.__init__ instantiates for a repository, None when it
\* raises RepoTypeNotImplemented
Classify(repo) ==
    IF Contains(repo, "artifactory") THEN "ArtifactoryRepo"
    ELSE IF StartsWith(repo, "quay.io/") THEN "QuayRepo"
    ELSE IF StartsWith(repo, "docker.io") THEN "DockerRepo"
    ELSE None

-----------------------------------------------------------------------------
(* ArtifactoryRepo.__init__: credential resolution *)

MissingCredentialsMsg(c) ==
    "No artifactory " \o c \o " provided or found in " \o ArtifactoryEnvKey[c]
        \o " environment variable"

\* a resolution that looks at the environment before the class attribute
ResolveCredential_EnvFirst(c, explicit, cached, env) ==
    IF Truthy(explicit)
    THEN [ok |-> TRUE, value |-> explicit, src |-> "explicit", inst |-> None]
    ELSE IF ArtifactoryEnvKey[c] \in DOMAIN env
    THEN [ok |-> TRUE, value |-> env[ArtifactoryEnvKey[c]], src |-> "env",
          inst |-> env[ArtifactoryEnvKey[c]]]
    ELSE IF Truthy(cached)
    THEN [ok |-> TRUE, value |-> cached, src |-> "cached", inst |-> None]
    ELSE [ok |-> FALSE, value |-> None, src |-> "missing", inst |-> None]

\* One credential: explicit is the argument, cached what self._artifactory_<c>
\* reads (the class attribute: the instance has none yet), env is os.environ.
\* inst is the attribute self._artifactory_<c> the branch assigns.
ResolveCredential(c, explicit, cached, env) ==
    IF Truthy(explicit)
    THEN [ok |-> TRUE, value |-> explicit, src |-> "explicit", inst |-> None]
    ELSE IF Truthy(cached)
    THEN [ok |-> TRUE, value |-> cached, src |-> "cached", inst |-> None]
    ELSE IF ArtifactoryEnvKey[c] \in DOMAIN env
    THEN [ok |-> TRUE, value |-> env[ArtifactoryEnvKey[c]], src |-> "env",
          inst |-> env[ArtifactoryEnvKey[c]]]
    ELSE [ok |-> FALSE, value |-> None, src |-> "missing", inst |-> None]

\* The constructor: user, then key, then base; the first credential that does
\* not resolve raises and the later ones are not looked at.
ArtifactoryInit(explicit, cache, env) ==
    LET ru == ResolveCredential("user", explicit.user, cache.user, env)
        rk == ResolveCredential("key", explicit.key, cache.key, env)
        rb == ResolveCredential("base", explicit.base, cache.base, env)
        skip == [ok |-> FALSE, value |-> None, src |-> "notreached", inst |-> None]
        u == ru
        k == IF ru.ok THEN rk ELSE skip
        b == IF ru.ok /\ rk.ok THEN rb ELSE skip
        failed == IF ~u.ok THEN "user" ELSE IF ~k.ok THEN "key"
                  ELSE IF ~b.ok THEN "base" ELSE None
    IN  [raised |-> IF failed = None THEN None ELSE "MissingCredentials",
         msg |-> IF failed = None THEN "" ELSE MissingCredentialsMsg(failed),
         cred |-> [user |-> u.value, key |-> k.value, base |-> b.value],
         src |-> [user |-> u.src, key |-> k.src, base |-> b.src],
         inst |-> [user |-> u.inst, key |-> k.inst, base |-> b.inst]]

-----------------------------------------------------------------------------
(* DockerRepo.__init__ *)

\* docker_user and docker_key: the argument, else the environment, else None
ResolveOptional(c, explicit, env) ==
    IF Truthy(explicit)
    THEN [value |-> explicit, src |-> "explicit", inst |-> None]
    ELSE IF DockerEnvKey[c] \in DOMAIN env
    THEN [value |-> env[DockerEnvKey[c]], src |-> "env", inst |-> env[DockerEnvKey[c]]]
    ELSE [value |-> None, src |-> "missing", inst |-> None]

DockerInit(explicit, env) ==
    LET u == ResolveOptional("user", explicit.user, env)
        k == ResolveOptional("key", explicit.key, env)
    IN  [raised |-> None, msg |-> "",
         cred |-> [user |-> u.value, key |-> k.value, base |-> None],
         src |-> [user |-> u.src, key |-> k.src, base |-> "notreached"],
         inst |-> [user |-> u.inst, key |-> k.inst, base |-> None]]

\* QuayRepo.__init__ only keeps the image
QuayInit ==
    [raised |-> None, msg |-> "", cred |-> NoCreds,
     src |-> [c \in CredNames |-> "notreached"], inst |-> NoCreds]

-----------------------------------------------------------------------------
(* Constructor calls *)

\* the state after the constructor op, which built an adapter of class kind
\* with the arguments explicit, ended as r
Constructed(op, kind, image, explicit, r) ==
    /\ call' = [NoCall EXCEPT !.op = op, !.image = image, !.explicit = explicit,
                              !.raised = r.raised, !.msg = r.msg, !.cred = r.cred,
                              !.src = r.src]
    /\ obj' = IF r.raised # None THEN NoObj
              ELSE [kind |-> op, image |-> image,
                    image_repo |-> IF op = "ImageRepo" THEN kind ELSE None,
                    cred |-> r.cred, inst |-> r.inst]
    /\ reqs' = <<>>
    /\ UNCHANGED <<environ, shared>>

\* ImageRepo(image)
ImageRepoInit ==
    \E image \in Images :
        LET kind == Classify(image.repo) IN
        IF kind = "ArtifactoryRepo"
        THEN Constructed("ImageRepo", kind, image, NoCreds,
                         ArtifactoryInit(NoCreds, shared, environ))
        ELSE IF kind = "QuayRepo"
        THEN Constructed("ImageRepo", kind, image, NoCreds, QuayInit)
        ELSE IF kind = "DockerRepo"
        THEN Constructed("ImageRepo", kind, image, NoCreds,
                         DockerInit(NoCreds, environ))
        ELSE Constructed("ImageRepo", None, image, NoCreds,
                         [QuayInit EXCEPT !.raised = "RepoTypeNotImplemented",
                             !.msg = "Unknown repository type for image " \o image.image])

\* ArtifactoryRepo(image, artifactory_base, artifactory_user, artifactory_key)
ArtifactoryRepoInit ==
    \E explicit \in ExplicitArgs :
        Constructed("ArtifactoryRepo", "ArtifactoryRepo", ArtifactoryImage, explicit,
                    ArtifactoryInit(explicit, shared, environ))

\* QuayRepo(image)
QuayRepoInit ==
    Constructed("QuayRepo", "QuayRepo", QuayImage, NoCreds, QuayInit)

\* DockerRepo(image, docker_user, docker_key)
DockerRepoInit ==
    \E u \in ExplicitValues, k \in ExplicitValues :
        LET explicit == [user |-> u, key |-> k, base |-> None] IN
        Constructed("DockerRepo", "DockerRepo", DockerImage, explicit,
                    DockerInit(explicit, environ))

-----------------------------------------------------------------------------
(* The process around the adapters *)

\* os.environ[k] = v, for one of the variables ArtifactoryRepo reads
SetEnviron ==
    \E k \in ArtifactoryEnvKeys, v \in EnvValues :
        /\ environ' = [x \in DOMAIN environ \cup {k} |-> IF x = k THEN v ELSE environ[x]]
        /\ UNCHANGED <<shared, obj, call, reqs>>

\* del os.environ[k]
DelEnviron ==
    \E k \in DOMAIN environ :
        /\ environ' = [x \in DOMAIN environ \ {k} |-> environ[x]]
        /\ UNCHANGED <<shared, obj, call, reqs>>

\* ArtifactoryRepo._artifactory_<c> = v: the class attributes are the cache
\* shared between instances, and only code outside the class assigns them
SetShared ==
    \E c \in CredNames, v \in SharedValues :
        /\ shared' = [shared EXCEPT ![c] = v]
        /\ UNCHANGED <<environ, obj, call, reqs>>

-----------------------------------------------------------------------------
(* ArtifactoryRepo: digests and the raw manifest list *)

\* _get_artifactory_repo
ArtifactoryRepoPath(repo) == SplitHead(repo, ".") \o "/" \o SplitTail(repo, "/")

\* the path of file for the image of o, and the request on it
ArtifactoryRequest(kind, o, file) ==
    [kind |-> kind,
     target |-> o.cred.base \o "/" \o ArtifactoryRepoPath(o.image.repo) \o "/"
                    \o o.image.name \o "/" \o o.image.tag \o "/" \o file,
     user |-> o.cred.user, key |-> o.cred.key]

\* what ArtifactoryPath.stat does: it returns the sha256, or raises
StatAnswers ==
    {[NoAnswer EXCEPT !.sha256 = "ab12"],
     [NoAnswer EXCEPT !.err = "FileNotFoundError"],
     [NoAnswer EXCEPT !.err = "RuntimeError"]}

\* _get_raw_image_digest and _get_raw_manifest_list_digest, wrapped by
\* get_image_digest and get_manifest_list_digest
ArtifactoryDigest(manifest_list, a) ==
    IF a.err = None
    THEN [raised |-> None, msg |-> "", ret |-> "sha256:" \o a.sha256, doc |-> NoDoc]
    ELSE IF a.err = "FileNotFoundError"
    THEN [raised |-> IF manifest_list THEN "ManifestListNotFound" ELSE "ManifestNotFound",
          msg |-> a.err, ret |-> None, doc |-> NoDoc]
    ELSE [raised |-> a.err, msg |-> a.err, ret |-> None, doc |-> NoDoc]

ManifestListDoc == [NoDoc EXCEPT !.mediaType = "application/vnd.docker.distribution.manifest.list.v2+json"]

ManifestDoc == [NoDoc EXCEPT !.mediaType = "application/vnd.docker.distribution.manifest.v2+json"]

\* what list_path.open() does (err), then f.read() (read), and what the bytes
\* read are (content)
OpenAnswers ==
    {[NoAnswer EXCEPT !.err = "FileNotFoundError"],
     [NoAnswer EXCEPT !.err = "RuntimeError"],
     [NoAnswer EXCEPT !.err = "ConnectionError"],
     [NoAnswer EXCEPT !.read = "ConnectionError"],
     [NoAnswer EXCEPT !.content = "not utf-8"],
     [NoAnswer EXCEPT !.content = "not json"],
     [NoAnswer EXCEPT !.content = "json"]}

\* ArtifactoryRepo.get_raw_manifest_list: only open() is inside the try
ArtifactoryRawManifestList(a) ==
    IF a.err \in {"FileNotFoundError", "RuntimeError"}
    THEN [raised |-> "ManifestListNotFound", msg |-> a.err, ret |-> None, doc |-> NoDoc]
    ELSE IF a.err # None
    THEN [raised |-> a.err, msg |-> a.err, ret |-> None, doc |-> NoDoc]
    ELSE IF a.read # None
    THEN [raised |-> a.read, msg |-> a.read, ret |-> None, doc |-> NoDoc]
    ELSE IF a.content = "not utf-8"
    THEN [raised |-> "UnicodeDecodeError", msg |-> "", ret |-> None, doc |-> NoDoc]
    ELSE IF a.content = "not json"
    THEN [raised |-> "JSONDecodeError", msg |-> "", ret |-> None, doc |-> NoDoc]
    ELSE [raised |-> None, msg |-> "", ret |-> None, doc |-> ManifestListDoc]

-----------------------------------------------------------------------------
(* QuayRepo._get_digest *)

QUAY_BASE_URL == "https://quay.io/api/v1/repository"

\* _get_quay_repo
QuayRepoPath(image) == Remove(image.repo, "quay.io/") \o "/" \o image.name

\* the GET of _get_digest: requests.get(url) is given no credentials
QuayRequest(o) ==
    [kind |-> "GET",
     target |-> QUAY_BASE_URL \o "/" \o QuayRepoPath(o.image) \o "/tag/"
                    \o "?onlyActiveTags=true&specificTag=" \o o.image.tag,
     user |-> None, key |-> None]

Digests == {"sha256:aa", "sha256:bb"}

TagEntries == [is_manifest_list : BOOLEAN, manifest_digest : Digests]

\* the lists of at most n tag entries
RECURSIVE TagLists(_)
TagLists(n) ==
    IF n = 0 THEN {<<>>}
    ELSE TagLists(n - 1) \cup {Append(l, t) : l \in TagLists(n - 1), t \in TagEntries}

\* the responses of the API: with a status that is not 200 the body is not read
Responses ==
    {[NoAnswer EXCEPT !.status_code = c] : c \in {403, 404, 500}}
        \cup {[NoAnswer EXCEPT !.status_code = 200, !.tags = l] : l \in TagLists(MaxTags)}

\* a loop that returns the digest of the single entry whatever its kind
QuayTags_AnyKind(manifest_list, tags) ==
    IF Len(tags) > 1
    THEN [raised |-> "Exception", msg |-> "Expected 1 tag", ret |-> None, doc |-> NoDoc]
    ELSE IF Len(tags) = 0
    THEN [raised |-> None, msg |-> "", ret |-> None, doc |-> NoDoc]
    ELSE [raised |-> None, msg |-> "", ret |-> tags[1].manifest_digest, doc |-> NoDoc]

\* the loop over the tags: it returns or raises at the first entry, and a list
\* without entries falls off the end of the function, which returns None
QuayTags(manifest_list, tags) ==
    IF Len(tags) > 1
    THEN [raised |-> "Exception", msg |-> "Expected 1 tag", ret |-> None, doc |-> NoDoc]
    ELSE IF Len(tags) = 0
    THEN [raised |-> None, msg |-> "", ret |-> None, doc |-> NoDoc]
    ELSE IF tags[1].is_manifest_list = manifest_list
    THEN [raised |-> None, msg |-> "", ret |-> tags[1].manifest_digest, doc |-> NoDoc]
    ELSE IF manifest_list
    THEN [raised |-> "ManifestListNotFound", msg |-> "Tag is not manifest list",
          ret |-> None, doc |-> NoDoc]
    ELSE [raised |-> "ManifestNotFound", msg |-> "Tag is a manifest list",
          ret |-> None, doc |-> NoDoc]

\* _get_digest once the response is there
QuayDigest(manifest_list, resp) ==
    IF resp.status_code = 403
    THEN [raised |-> "MissingCredentials", msg |-> "", ret |-> None, doc |-> NoDoc]
    ELSE IF resp.status_code = 404
    THEN [raised |-> IF manifest_list THEN "ManifestListNotFound" ELSE "ManifestNotFound",
          msg |-> "", ret |-> None, doc |-> NoDoc]
    ELSE IF resp.status_code # 200
    THEN [raised |-> "Exception", msg |-> "", ret |-> None, doc |-> NoDoc]
    ELSE QuayTags(manifest_list, resp.tags)

-----------------------------------------------------------------------------
(* DockerRepo: the skopeo commands *)

\* a test that is content with one of the two
WithCreds_Either(user, key) == key # None \/ user # None

\* the commands carry --creds when both docker_user and docker_key are there
WithCreds(user, key) == key # None /\ user # None

\* "skopeo inspect" with the flag as the method writes it ("--creds " in
\* get_raw_manifest_list, "--creds" in _get_digest) and the options
Skopeo(o, flag, options) ==
    IF WithCreds(o.cred.user, o.cred.key)
    THEN "skopeo inspect " \o flag \o o.cred.user \o ":" \o o.cred.key \o " "
            \o options \o " docker://" \o o.image.image
    ELSE "skopeo inspect " \o options \o " docker://" \o o.image.image

SkopeoRequest(cmd) == [kind |-> "skopeo", target |-> cmd, user |-> None, key |-> None]

\* what an inspection writes to stdout: nothing json.loads accepts, or a
\* document: one without the key read, a manifest list, a manifest with its
\* digest
Outputs ==
    {NoOut, [json |-> TRUE, doc |-> NoDoc], [json |-> TRUE, doc |-> ManifestListDoc],
     [json |-> TRUE, doc |-> [ManifestDoc EXCEPT !.Digest = "sha256:cc"]]}

\* what "skopeo inspect --raw ... | shasum -a 256" writes to stdout
ShasumOutputs == {"dd34  -", "e3b0  -"}

\* DockerRepo.get_raw_manifest_list: every exception raised inside the try,
\* the ManifestListNotFound of the else branch too, is replaced
DockerRawManifestList(raw) ==
    IF ~raw.json \/ raw.doc.mediaType = None
    THEN [raised |-> "ManifestListNotFound", msg |-> "error with skopeo command",
          ret |-> None, doc |-> NoDoc]
    ELSE IF Contains(raw.doc.mediaType, "manifest.list")
    THEN [raised |-> None, msg |-> "", ret |-> None, doc |-> raw.doc]
    ELSE [raised |-> "ManifestListNotFound", msg |-> "error with skopeo command",
          ret |-> None, doc |-> NoDoc]

\* the number of commands _get_digest runs, given the output of the first
DockerCommands(manifest_list, raw) ==
    IF ~raw.json \/ raw.doc.mediaType = None THEN 1
    ELSE IF Contains(raw.doc.mediaType, "manifest.list")
    THEN (IF manifest_list THEN 2 ELSE 1)
    ELSE 2

\* DockerRepo._get_digest: raw is the output of the first command, inspect or
\* shasum the output of the second
DockerDigest(manifest_list, raw, inspect, shasum) ==
    IF ~raw.json
    THEN [raised |-> "JSONDecodeError", msg |-> "", ret |-> None, doc |-> NoDoc]
    ELSE IF raw.doc.mediaType = None
    THEN [raised |-> "KeyError", msg |-> "mediaType", ret |-> None, doc |-> NoDoc]
    ELSE IF Contains(raw.doc.mediaType, "manifest.list")
    THEN IF manifest_list
         THEN [raised |-> None, msg |-> "", ret |-> "sha256:" \o SplitHead(shasum, " "),
               doc |-> NoDoc]
         ELSE [raised |-> None, msg |-> "", ret |-> None, doc |-> NoDoc]
    ELSE IF ~inspect.json
    THEN [raised |-> "JSONDecodeError", msg |-> "", ret |-> None, doc |-> NoDoc]
    ELSE IF manifest_list
    THEN [raised |-> "ManifestListNotFound", msg |-> "Manifest List does not exist",
          ret |-> None, doc |-> NoDoc]
    ELSE IF inspect.doc.Digest = None
    THEN [raised |-> "KeyError", msg |-> "Digest", ret |-> None, doc |-> NoDoc]
    ELSE [raised |-> None, msg |-> "", ret |-> inspect.doc.Digest, doc |-> NoDoc]

-----------------------------------------------------------------------------
(* Calls of the adapters' methods, directly or through ImageRepo *)

\* the state after the method op of obj, called with manifest_list, got the
\* answer a from the backend through the requests rs and ended as r
Called(op, manifest_list, a, rs, r) ==
    /\ call' = [NoCall EXCEPT !.op = op, !.image = obj.image,
                              !.manifest_list = manifest_list, !.answer = a,
                              !.raised = r.raised, !.msg = r.msg, !.ret = r.ret,
                              !.doc = r.doc]
    /\ reqs' = rs
    /\ UNCHANGED <<environ, shared, obj>>

\* get_image_digest() and get_manifest_list_digest() of ArtifactoryRepo
ArtifactoryGetDigest ==
    /\ Adapter(obj) = "ArtifactoryRepo"
    /\ \E manifest_list \in BOOLEAN, a \in StatAnswers :
        Called(IF manifest_list THEN "get_manifest_list_digest" ELSE "get_image_digest",
               manifest_list, a,
               <<ArtifactoryRequest("stat", obj,
                    IF manifest_list THEN "list.manifest.json" ELSE "manifest.json")>>,
               ArtifactoryDigest(manifest_list, a))

\* get_raw_manifest_list() of ArtifactoryRepo
ArtifactoryGetRawManifestList ==
    /\ Adapter(obj) = "ArtifactoryRepo"
    /\ \E a \in OpenAnswers :
        Called("get_raw_manifest_list", TRUE, a,
               <<ArtifactoryRequest("open", obj, "list.manifest.json")>>,
               ArtifactoryRawManifestList(a))

\* get_image_digest() and get_manifest_list_digest() of QuayRepo
QuayGetDigest ==
    /\ Adapter(obj) = "QuayRepo"
    /\ \E manifest_list \in BOOLEAN, resp \in Responses :
        Called(IF manifest_list THEN "get_manifest_list_digest" ELSE "get_image_digest",
               manifest_list, resp, <<QuayRequest(obj)>>,
               QuayDigest(manifest_list, resp))

\* get_image_digest() and get_manifest_list_digest() of DockerRepo
DockerGetDigest ==
    /\ Adapter(obj) = "DockerRepo"
    /\ LET first == Skopeo(obj, "--creds", "--override-os linux --raw")
           resolved == Skopeo(obj, "--creds", "--override-os linux")
       IN
       \E manifest_list \in BOOLEAN, raw \in Outputs, inspect \in Outputs,
          shasum \in ShasumOutputs :
        LET n == DockerCommands(manifest_list, raw)
            list == raw.json /\ raw.doc.mediaType # None
                        /\ Contains(raw.doc.mediaType, "manifest.list")
            second == IF list THEN first \o " | shasum -a 256" ELSE resolved
        IN  Called(IF manifest_list THEN "get_manifest_list_digest" ELSE "get_image_digest",
                   manifest_list,
                   [NoAnswer EXCEPT !.raw = raw,
                        !.inspect = IF n = 2 /\ ~list THEN inspect ELSE NoOut,
                        !.shasum = IF n = 2 /\ list THEN shasum ELSE None],
                   IF n = 2 THEN <<SkopeoRequest(first), SkopeoRequest(second)>>
                   ELSE <<SkopeoRequest(first)>>,
                   DockerDigest(manifest_list, raw, inspect, shasum))

\* get_raw_manifest_list() of DockerRepo
DockerGetRawManifestList ==
    /\ Adapter(obj) = "DockerRepo"
    /\ \E raw \in Outputs :
        Called("get_raw_manifest_list", TRUE, [NoAnswer EXCEPT !.raw = raw],
               <<SkopeoRequest(Remove(Skopeo(obj, "--creds ", "--override-os linux --raw"),
                                      "docker.io/"))>>,
               DockerRawManifestList(raw))

-----------------------------------------------------------------------------
(* The whole program: any call, on any object, in a changing environment *)

Init ==
    /\ environ = << >>
    /\ shared = NoCreds
    /\ obj = NoObj
    /\ call = NoCall
    /\ reqs = <<>>

Next ==
    \/ ImageRepoInit
    \/ ArtifactoryRepoInit
    \/ QuayRepoInit
    \/ DockerRepoInit
    \/ ArtifactoryGetDigest
    \/ ArtifactoryGetRawManifestList
    \/ QuayGetDigest
    \/ DockerGetDigest
    \/ DockerGetRawManifestList
    \/ SetEnviron
    \/ DelEnviron
    \/ SetShared

Spec == Init /\ [][Next]_vars

-----------------------------------------------------------------------------
(* The facade: ImageRepo is built on any image, in any environment *)

InitFacade ==
    /\ environ \in EnvironsOf("e1")
    /\ shared = NoCreds
    /\ obj = NoObj
    /\ call = NoCall
    /\ reqs = <<>>

NextFacade == ImageRepoInit

SpecFacade == InitFacade /\ [][NextFacade]_vars

\* the last call was ImageRepo(image) and chose, and built, the class kind
Selected(kind) ==
    call.op = "ImageRepo" /\ call.raised = None /\ obj.kind = "ImageRepo"
        /\ obj.image_repo = kind

\* the last call was ImageRepo(image) and raised exc: no adapter is kept
Failed(exc) == call.op = "ImageRepo" /\ call.raised = exc /\ obj = NoObj

\* every credential of ArtifactoryRepo resolves from the class attributes or
\* the environment
ArtifactoryConfigured ==
    \A c \in CredNames : Truthy(shared[c]) \/ ArtifactoryEnvKey[c] \in DOMAIN environ

\* C1 as stated: a repository that contains 'artifactory' selects
\* ArtifactoryRepo, else one that starts with 'quay.io/' selects QuayRepo, else
\* one that starts with 'docker.io' selects DockerRepo, else ImageRepo raises
\* RepoTypeNotImplemented and no adapter is selected; nothing else happens.
C1_FourOutcomes ==
    call.op = "ImageRepo" =>
        LET h == call.image.repo IN
        IF Contains(h, "artifactory") THEN Selected("ArtifactoryRepo")
        ELSE IF StartsWith(h, "quay.io/") THEN Selected("QuayRepo")
        ELSE IF StartsWith(h, "docker.io") THEN Selected("DockerRepo")
        ELSE Failed("RepoTypeNotImplemented")

\* C1, amended: the same classification in the same order, where the first
\* case builds ArtifactoryRepo, which is selected when its three credentials
\* resolve and otherwise makes ImageRepo raise MissingCredentials with no
\* adapter selected.
C1_Classification ==
    call.op = "ImageRepo" =>
        LET h == call.image.repo IN
        IF Contains(h, "artifactory")
        THEN IF ArtifactoryConfigured THEN Selected("ArtifactoryRepo")
             ELSE Failed("MissingCredentials")
        ELSE IF StartsWith(h, "quay.io/") THEN Selected("QuayRepo")
        ELSE IF StartsWith(h, "docker.io") THEN Selected("DockerRepo")
        ELSE Failed("RepoTypeNotImplemented")

\* a repository that matches the first and the second case was classified
C1_Witness ==
    /\ Selected("ArtifactoryRepo")
    /\ StartsWith(call.image.repo, "quay.io/")
    /\ Contains(call.image.repo, "artifactory")

\* C2: a repository that starts with 'quay.io/' selects QuayRepo and one that
\* starts with 'docker.io' selects DockerRepo, whatever else it contains: a
\* repository with one of the two prefixes is never given to ArtifactoryRepo.
C2_PrefixBeforeSubstring ==
    call.op = "ImageRepo" =>
        /\ StartsWith(call.image.repo, "quay.io/") => Selected("QuayRepo")
        /\ StartsWith(call.image.repo, "docker.io") => Selected("DockerRepo")

-----------------------------------------------------------------------------
(* Credentials: ArtifactoryRepo is built again and again in one process,    *)
(* while the environment and the class attributes change                    *)

InitCred == Init

NextCred == ArtifactoryRepoInit \/ SetEnviron \/ DelEnviron \/ SetShared

SpecCred == InitCred /\ [][NextCred]_vars

\* the same process when nothing but the class itself touches the class
\* attributes
NextCache == ArtifactoryRepoInit \/ SetEnviron \/ DelEnviron

SpecCache == InitCred /\ [][NextCache]_vars

CredOrder == <<"user", "key", "base">>

\* a step that is a call of ArtifactoryRepo(...): the only steps that end with
\* such a call as the last one and leave the environment and the class
\* attributes as they are
Constructs == call'.op = "ArtifactoryRepo" /\ UNCHANGED <<environ, shared>>

\* no source has credential c: the argument explicit[c] is not given, the
\* class attribute is not set, the environment variable is not set
AllEmpty(c, explicit) ==
    /\ ~Truthy(explicit[c])
    /\ ~Truthy(shared[c])
    /\ ArtifactoryEnvKey[c] \notin DOMAIN environ

\* the message of the exception names credential c
Names(msg, c) == Contains(msg, "artifactory " \o c) /\ Contains(msg, ArtifactoryEnvKey[c])

\* in a call that ends normally, an argument that is given is the value used,
\* and without one a class attribute that is set is the value used
ExplicitThenCached(c) ==
    call'.raised = None =>
        /\ Truthy(call'.explicit[c]) => obj'.cred[c] = call'.explicit[c]
        /\ ~Truthy(call'.explicit[c]) /\ Truthy(shared[c]) => obj'.cred[c] = shared[c]

\* C3 as stated: for each credential of ArtifactoryRepo, an explicit argument
\* is the value used; without one, a cached value is used before the
\* environment; and when the argument, the cache and the environment are all
\* empty for it, the constructor raises MissingCredentials with a message that
\* names that credential.
C3_EachNamed ==
    [][Constructs =>
        \A c \in CredNames :
            /\ ExplicitThenCached(c)
            /\ AllEmpty(c, call'.explicit) =>
                    call'.raised = "MissingCredentials" /\ Names(call'.msg, c)]_vars

\* C3, amended: the same precedence; when the argument, the class attribute
\* and the environment variable are all unset for some credential, the
\* constructor raises MissingCredentials with a message that names the first
\* such credential in the order user, key, base, and otherwise it ends
\* normally.
C3_FirstNamed ==
    [][Constructs =>
        /\ \A c \in CredNames : ExplicitThenCached(c)
        /\ \A i \in 1..3 :
            (/\ AllEmpty(CredOrder[i], call'.explicit)
             /\ \A j \in 1..(i - 1) : ~AllEmpty(CredOrder[j], call'.explicit))
                => call'.raised = "MissingCredentials" /\ Names(call'.msg, CredOrder[i])
        /\ (\A c \in CredNames : ~AllEmpty(c, call'.explicit)) => call'.raised = None]_vars

\* an argument was used although the class attribute and the environment
\* variable were set too, and a class attribute although the variable was set
C3_Witness ==
    /\ call.op = "ArtifactoryRepo" /\ call.raised = None
    /\ Truthy(call.explicit.user) /\ obj.cred.user = call.explicit.user
    /\ Truthy(shared.user) /\ "ARTIFACTORY_USER" \in DOMAIN environ
    /\ ~Truthy(call.explicit.key) /\ obj.cred.key = shared.key
    /\ Truthy(shared.key) /\ "ARTIFACTORY_KEY" \in DOMAIN environ

\* C4: a credential resolved once (here: to a non-empty value of the
\* environment, by the ArtifactoryRepo built last) is the cached value every
\* later construction without an explicit argument for it resolves it to,
\* whatever has become of the environment variable.
C4_CachedAcrossInstances ==
    [][Constructs =>
        \A c \in CredNames :
            (/\ obj.kind = "ArtifactoryRepo" /\ call.src[c] = "env"
             /\ Truthy(obj.cred[c])
             /\ ~Truthy(call'.explicit[c]) /\ call'.src[c] # "notreached")
                => call'.cred[c] = obj.cred[c]]_vars

-----------------------------------------------------------------------------
(* The adapters at work: each is built, in any environment, and queried *)

InitOps ==
    /\ environ \in EnvironsOf("e1")
    /\ shared = NoCreds
    /\ obj = NoObj
    /\ call = NoCall
    /\ reqs = <<>>

NextOps ==
    \/ ArtifactoryRepoInit
    \/ QuayRepoInit
    \/ DockerRepoInit
    \/ ArtifactoryGetDigest
    \/ ArtifactoryGetRawManifestList
    \/ QuayGetDigest
    \/ DockerGetDigest
    \/ DockerGetRawManifestList

SpecOps == InitOps /\ [][NextOps]_vars

DigestOps == {"get_image_digest", "get_manifest_list_digest"}

\* the last call was a digest query answered by the adapter of class kind
DigestCall(kind) == call.op \in DigestOps /\ Adapter(obj) = kind

\* the failure that says the kind of manifest asked for is not there
NotFound(manifest_list) ==
    IF manifest_list THEN "ManifestListNotFound" ELSE "ManifestNotFound"

\* C5: every call of get_image_digest or get_manifest_list_digest, on every
\* adapter and for every answer of the backend, either returns one digest
\* 'sha256:<hex>' or raises; it never ends normally without a digest.
C5_DigestOrFailure ==
    call.op \in DigestOps =>
        \/ call.raised # None /\ call.ret = None
        \/ call.raised = None /\ call.ret # None
                /\ StartsWith(call.ret, "sha256:") /\ Len(call.ret) > Len("sha256:")

\* C6: QuayRepo on a 200 response: with no entry in 'tags' the call raises
\* the not-found failure of the kind asked for; with two entries or more it
\* raises and returns the digest of none.
C6_ZeroOrManyTags ==
    DigestCall("QuayRepo") /\ call.answer.status_code = 200 =>
        /\ Len(call.answer.tags) = 0 => call.raised = NotFound(call.manifest_list)
        /\ Len(call.answer.tags) >= 2 => call.raised # None /\ call.ret = None

\* C7: QuayRepo on a 200 response with exactly one entry in 'tags': the call
\* returns the entry's manifest_digest, unchanged, if and only if the entry's
\* is_manifest_list equals the kind asked for; otherwise it raises
\* ManifestListNotFound (list asked for) or ManifestNotFound (image asked
\* for) and returns nothing.
C7_SingleTag ==
    DigestCall("QuayRepo") /\ call.answer.status_code = 200
            /\ Len(call.answer.tags) = 1 =>
        LET t == call.answer.tags[1] IN
        IF t.is_manifest_list = call.manifest_list
        THEN call.raised = None /\ call.ret = t.manifest_digest
        ELSE call.raised = NotFound(call.manifest_list) /\ call.ret = None

\* the list digest was asked for a tag that is a manifest list, and returned
C7_Witness ==
    /\ DigestCall("QuayRepo") /\ call.answer.status_code = 200
    /\ Len(call.answer.tags) = 1 /\ call.answer.tags[1].is_manifest_list
    /\ call.manifest_list /\ call.ret = call.answer.tags[1].manifest_digest

\* C8: DockerRepo.get_manifest_list_digest, when the raw inspection output
\* parses and its mediaType does not contain 'manifest.list', raises
\* ManifestListNotFound whatever a later inspection writes; it returns no
\* digest and raises nothing else.
C8_NotAListIsNotFound ==
    (/\ Adapter(obj) = "DockerRepo" /\ call.op = "get_manifest_list_digest"
     /\ call.answer.raw.json /\ call.answer.raw.doc.mediaType # None
     /\ ~Contains(call.answer.raw.doc.mediaType, "manifest.list"))
        => call.raised = "ManifestListNotFound" /\ call.ret = None

\* the requests of the last call that went to the backend of kind
Requests(kinds) == {i \in 1..Len(reqs) : reqs[i].kind \in kinds}

\* ArtifactoryRepo resolves its credentials when it is built, or fails
ArtifactoryFailsFast ==
    /\ call.op = "ArtifactoryRepo" /\ (\E c \in CredNames : AllEmpty(c, call.explicit))
            => call.raised = "MissingCredentials" /\ obj = NoObj
    /\ \A i \in Requests({"stat", "open"}) :
            /\ Adapter(obj) = "ArtifactoryRepo"
            /\ reqs[i].user = obj.cred.user /\ reqs[i].user # None
            /\ reqs[i].key = obj.cred.key /\ reqs[i].key # None

\* DockerRepo is built without credentials too, and its commands carry
\* --creds only when it has both docker_user and docker_key
DockerCredentialsOptional ==
    /\ call.op = "DockerRepo" => call.raised = None
    /\ \A i \in Requests({"skopeo"}) :
            Contains(reqs[i].target, "--creds")
                => obj.cred.user # None /\ obj.cred.key # None

\* C9 as stated: ArtifactoryRepo and QuayRepo need credentials and check them
\* when they are built: MissingCredentials is raised by a constructor, and no
\* request (stat, open, GET) is made without credentials; DockerRepo never
\* fails for missing credentials and passes them only when it has both.
C9_FailFast ==
    /\ ArtifactoryFailsFast
    /\ \A i \in Requests({"GET"}) : reqs[i].user # None /\ reqs[i].key # None
    /\ call.raised = "MissingCredentials"
            => call.op \in {"ImageRepo", "ArtifactoryRepo", "QuayRepo"}
    /\ DockerCredentialsOptional

\* C9, amended: the same for ArtifactoryRepo and DockerRepo; QuayRepo resolves
\* no credentials: its constructor never fails, its GET carries none, and it
\* raises MissingCredentials only when the API answers 403.
C9_Credentials ==
    /\ ArtifactoryFailsFast
    /\ call.op = "QuayRepo" => call.raised = None
    /\ \A i \in Requests({"GET"}) :
            Adapter(obj) = "QuayRepo" /\ reqs[i].user = None /\ reqs[i].key = None
    /\ call.raised = "MissingCredentials" =>
            \/ call.op \in {"ImageRepo", "ArtifactoryRepo"}
            \/ DigestCall("QuayRepo") /\ call.answer.status_code = 403
    /\ DockerCredentialsOptional

\* an ArtifactoryRepo built from the environment alone made a request, which
\* carries the user and the key resolved when it was built
C9_Witness ==
    /\ Adapter(obj) = "ArtifactoryRepo" /\ Requests({"stat", "open"}) # {}
    /\ obj.inst = obj.cred
    /\ ArtifactoryEnvKeys \subseteq DOMAIN environ
    /\ reqs[1].user = environ["ARTIFACTORY_USER"]
    /\ reqs[1].key = environ["ARTIFACTORY_KEY"]

\* C10: ArtifactoryRepo.get_raw_manifest_list returns the parsed document or
\* raises ManifestListNotFound: a missing file, a RuntimeError of open(), a
\* fault while reading and content that does not parse all end as
\* ManifestListNotFound, and nothing else reaches the caller.
C10_OnlyManifestListNotFound ==
    Adapter(obj) = "ArtifactoryRepo" /\ call.op = "get_raw_manifest_list" =>
        \/ call.raised = None /\ call.doc # NoDoc
        \/ call.raised = "ManifestListNotFound" /\ call.doc = NoDoc

=============================================================================
